---- MODULE Spec2Model ----
(***************************************************************************)
(* A model of mat_lib: the Dense, Diag and Sparse matrix containers, their *)
(* constructors, accessors and in-place operations.  One matrix is built   *)
(* and then operated on; every call records its name, arguments and return *)
(* value so that contracts can be stated over the reachable states.        *)
(***************************************************************************)
EXTENDS Integers, Sequences, FiniteSets

\* ------------------------------------------------------------------ bounds
\* Largest row/column count and largest index coordinate passed to a call.
MaxDim == 3
\* Largest number of cells (n*m) of a Dense or Sparse shape.
MaxCells == 4
\* Longest element list handed to Diag::from.
MaxElems == 3
\* Longest string handed to mat_from_str and Dense::from_str.
MaxStr == 4
\* Longest separator handed to mat_from_str.
MaxSep == 2

\* ------------------------------------------------------------------ Entry
\* An Entry is a non-negative rational <<p, q>> in lowest terms (q > 0), with
\* exact arithmetic.  The entries handed to calls are 0, 1, 2 and 1/2, on which
\* f32 arithmetic is exact as well.
Zero == <<0, 1>>
One == <<1, 1>>

RECURSIVE GCD(_, _)
GCD(a, b) == IF b = 0 THEN a ELSE GCD(b, a % b)

Norm(p, q) == LET g == GCD(p, q) IN <<p \div g, q \div g>>

Mul(a, b) == Norm(a[1] * b[1], a[2] * b[2])

Add(a, b) == Norm(a[1] * b[2] + b[1] * a[2], a[2] * b[2])

\* a / b for b # 0
Div(a, b) == Norm(a[1] * b[2], a[2] * b[1])

Two == Add(One, One)
Half == Div(One, Two)

Vals == {Zero, One, Two, Half}

Dims == 0..MaxDim
Idxs == Dims \X Dims
Shapes == {s \in Idxs : s[1] * s[2] <= MaxCells}

\* The closures handed to apply: |e| e * c and |e| e + c.
Funs == [kind : {"mul", "add"}, c : Vals]

\* A third closure, used by Diag::inv only: |e| if e != 0 { 1 / e } else { 0 }.
ApplyFn(f, e) ==
    CASE f.kind = "mul" -> Mul(e, f.c)
      [] f.kind = "add" -> Add(e, f.c)
      [] f.kind = "inv" -> IF e # Zero THEN Div(One, e) ELSE Zero

Min(a, b) == IF a < b THEN a ELSE b

\* ------------------------------------------------------- results of calls
None == [tag |-> "None", val |-> Zero]
Some(x) == [tag |-> "Some", val |-> x]
\* Some(&mut Self) / &mut Self / Self
SomeSelf == [tag |-> "SomeSelf", val |-> Zero]
RetSelf == [tag |-> "Self", val |-> Zero]
Err == [tag |-> "Err", val |-> Zero]
\* todo!(), expect() on None
Panic == [tag |-> "Panic", val |-> Zero]

\* A mutable slot handed out by get_mut: a position in the backing storage.
NoSlot == [tag |-> "None", pos |-> 0]
Slot(k) == [tag |-> "Some", pos |-> k]

\* ------------------------------------------------------------------ Dense
Dense_zeros(n, m) == [data |-> [k \in 1..(n * m) |-> Zero], n |-> n, m |-> m]

\* Vec::get(i * m + j): Some iff the flat position lies inside the buffer.
Dense_get(self, idx) ==
    LET k == idx[1] * self.m + idx[2]
    IN IF k < Len(self.data) THEN Some(self.data[k + 1]) ELSE None

Dense_get_mut(self, idx) ==
    LET k == idx[1] * self.m + idx[2]
    IN IF k < Len(self.data) THEN Slot(k + 1) ELSE NoSlot

\* get_mut(idx).map(|num| mem::replace(num, val))
Dense_set(self, idx, val) ==
    LET slot == Dense_get_mut(self, idx)
    IN IF slot.tag = "Some"
       THEN [self |-> [self EXCEPT !.data[slot.pos] = val],
             ret |-> Some(self.data[slot.pos])]
       ELSE [self |-> self, ret |-> None]

Dense_shape(self) == <<self.n, self.m>>

Dense_is_square(self) == self.n = self.m

\* Vec::resize(len, 0): truncate, or extend with zeros.
Resize(data, len) ==
    [k \in 1..len |-> IF k <= Len(data) THEN data[k] ELSE Zero]

\* A faulty variant of Dense_reshape: the shape is stored but the buffer is not resized.
Dense_reshape_NoResize(self, shape) ==
    [data |-> self.data, n |-> shape[1], m |-> shape[2]]

\* A faulty variant of Dense_reshape: the buffer is replaced by fresh zeros.
Dense_reshape_Clears(self, shape) ==
    [data |-> [k \in 1..(shape[1] * shape[2]) |-> Zero],
     n |-> shape[1], m |-> shape[2]]

Dense_reshape(self, shape) ==
    [data |-> Resize(self.data, shape[1] * shape[2]),
     n |-> shape[1], m |-> shape[2]]

Dense_apply(self, f) ==
    [self EXCEPT !.data = [k \in 1..Len(self.data) |-> ApplyFn(f, self.data[k])]]

\* A faulty variant of Dense_scalar_mul: the closure adds rhs.
Dense_scalar_mul_Adds(self, rhs) == Dense_apply(self, [kind |-> "add", c |-> rhs])

Dense_scalar_mul(self, rhs) == Dense_apply(self, [kind |-> "mul", c |-> rhs])

Dense_det(self) == Panic

Dense_inv(self) == Panic

\* get(idx).expect("Index out of range")
Dense_index(self, idx) ==
    LET r == Dense_get(self, idx) IN IF r.tag = "Some" THEN r ELSE Panic

Dense_index_mut(self, idx) ==
    LET s == Dense_get_mut(self, idx) IN IF s.tag = "Some" THEN s ELSE Panic

\* ------------------------------------------------------------------- Diag
Diag_ident(n) == [data |-> [k \in 1..n |-> One], n |-> n, m |-> n]

Diag_zeros(n, m) == [data |-> [k \in 1..Min(n, m) |-> Zero], n |-> n, m |-> m]

\* A faulty variant of Diag_from: the length check is off by one (len >= min).
Diag_from_OffByOne(shape, elems) ==
    LET len == Len(elems)
        min == Min(shape[1], shape[2])
    IN IF len >= min
       THEN [ret |-> Err, self |-> Diag_zeros(0, 0)]
       ELSE [ret |-> RetSelf,
             self |-> [data |-> elems \o [k \in 1..(min - len) |-> Zero],
                       n |-> shape[1], m |-> shape[2]]]

Diag_from(shape, elems) ==
    LET len == Len(elems)
        min == Min(shape[1], shape[2])
    IN IF len > min
       THEN [ret |-> Err, self |-> Diag_zeros(0, 0)]
       ELSE [ret |-> RetSelf,
             self |-> [data |-> elems \o [k \in 1..(min - len) |-> Zero],
                       n |-> shape[1], m |-> shape[2]]]

\* data.get(i).map(|num| if i == j { num } else { &0.0 })
Diag_get(self, idx) ==
    IF idx[1] < Len(self.data)
    THEN (IF idx[1] = idx[2] THEN Some(self.data[idx[1] + 1]) ELSE Some(Zero))
    ELSE None

\* A faulty variant of Diag_get_mut: the i == j test is missing.
Diag_get_mut_AnyColumn(self, idx) ==
    IF idx[1] < Len(self.data) THEN Slot(idx[1] + 1) ELSE NoSlot

Diag_get_mut(self, idx) ==
    IF idx[1] = idx[2]
    THEN (IF idx[1] < Len(self.data) THEN Slot(idx[1] + 1) ELSE NoSlot)
    ELSE NoSlot

Diag_set(self, idx, val) ==
    LET slot == Diag_get_mut(self, idx)
    IN IF slot.tag = "Some"
       THEN [self |-> [self EXCEPT !.data[slot.pos] = val],
             ret |-> Some(self.data[slot.pos])]
       ELSE [self |-> self, ret |-> None]

Diag_shape(self) == <<self.n, self.m>>

Diag_is_square(self) == self.n = self.m

\* A faulty variant of Diag_reshape: the diagonal is resized to the row count.
Diag_reshape_ToRows(self, shape) ==
    [data |-> Resize(self.data, shape[1]),
     n |-> shape[1], m |-> shape[2]]

Diag_reshape(self, shape) ==
    [data |-> Resize(self.data, Min(shape[1], shape[2])),
     n |-> shape[1], m |-> shape[2]]

Diag_apply(self, f) ==
    [self EXCEPT !.data = [k \in 1..Len(self.data) |-> ApplyFn(f, self.data[k])]]

Diag_scalar_mul(self, rhs) == Diag_apply(self, [kind |-> "mul", c |-> rhs])

\* data.iter().fold(1.0, |a, b| a * b) over the first k entries
RECURSIVE Fold(_, _)
Fold(data, k) == IF k = 0 THEN One ELSE Mul(Fold(data, k - 1), data[k])

\* A faulty variant of Diag_det: the is_square check is missing.
Diag_det_NoSquareCheck(self) == Some(Fold(self.data, Len(self.data)))

Diag_det(self) ==
    IF ~Diag_is_square(self) THEN None ELSE Some(Fold(self.data, Len(self.data)))

\* A faulty variant of Diag_inv: the is_square check is missing.
Diag_inv_NoSquareCheck(self) ==
    [self |-> Diag_apply(self, [kind |-> "inv", c |-> Zero]), ret |-> SomeSelf]

Diag_inv(self) ==
    IF ~Diag_is_square(self)
    THEN [self |-> self, ret |-> None]
    ELSE [self |-> Diag_apply(self, [kind |-> "inv", c |-> Zero]), ret |-> SomeSelf]

Diag_index(self, idx) ==
    LET r == Diag_get(self, idx) IN IF r.tag = "Some" THEN r ELSE Panic

Diag_index_mut(self, idx) ==
    LET s == Diag_get_mut(self, idx) IN IF s.tag = "Some" THEN s ELSE Panic

\* ----------------------------------------------------------------- Sparse
\* A Sparse<T, N, M> value is its two fields, data and zero, together with the
\* const generics N and M of its type.

\* BTreeMap::insert
Insert(data, key, v) ==
    [k \in (DOMAIN data) \cup {key} |-> IF k = key THEN v ELSE data[k]]

EmptyMap == [k \in {} |-> Zero]

Sparse_zeros(n, m) == [data |-> EmptyMap, zero |-> Zero, N |-> n, M |-> m]

\* A faulty variant of Sparse_is_in_range: the row bound is off by one (i <= N).
Sparse_is_in_range_OffByOne(self, idx) == idx[1] <= self.N /\ idx[2] < self.M

Sparse_is_in_range(self, idx) == idx[1] < self.N /\ idx[2] < self.M

Sparse_get(self, idx) ==
    IF ~Sparse_is_in_range(self, idx)
    THEN None
    ELSE IF idx \in DOMAIN self.data THEN Some(self.data[idx]) ELSE Some(self.zero)

\* data.entry(idx).or_insert(T::from(0))
\* A faulty variant of Sparse_get_mut: the inserted entry is one.
Sparse_get_mut_InsertsOne(self, idx) ==
    IF ~Sparse_is_in_range(self, idx)
    THEN [self |-> self, slot |-> NoSlot]
    ELSE [self |-> IF idx \in DOMAIN self.data
                   THEN self
                   ELSE [self EXCEPT !.data = Insert(self.data, idx, One)],
          slot |-> Slot(idx)]

Sparse_get_mut(self, idx) ==
    IF ~Sparse_is_in_range(self, idx)
    THEN [self |-> self, slot |-> NoSlot]
    ELSE [self |-> IF idx \in DOMAIN self.data
                   THEN self
                   ELSE [self EXCEPT !.data = Insert(self.data, idx, Zero)],
          slot |-> Slot(idx)]

\* data.insert(idx, val).or_else(|| Some(T::from(0)))
\* A faulty variant of Sparse_set: the new value is returned instead of the previous one.
Sparse_set_ReturnsNew(self, idx, val) ==
    IF ~Sparse_is_in_range(self, idx)
    THEN [self |-> self, ret |-> None]
    ELSE [self |-> [self EXCEPT !.data = Insert(self.data, idx, val)],
          ret |-> Some(val)]

Sparse_set(self, idx, val) ==
    IF ~Sparse_is_in_range(self, idx)
    THEN [self |-> self, ret |-> None]
    ELSE [self |-> [self EXCEPT !.data = Insert(self.data, idx, val)],
          ret |-> IF idx \in DOMAIN self.data THEN Some(self.data[idx]) ELSE Some(Zero)]

Sparse_shape(self) == <<self.N, self.M>>

Sparse_is_square(self) == self.N = self.M

Sparse_apply(self, f) ==
    [self EXCEPT !.data = [k \in DOMAIN self.data |-> ApplyFn(f, self.data[k])]]

Sparse_scalar_mul(self, rhs) == Sparse_apply(self, [kind |-> "mul", c |-> rhs])

Sparse_det(self) == Panic

Sparse_inv(self) == Panic

Sparse_index(self, idx) ==
    LET r == Sparse_get(self, idx) IN IF r.tag = "Some" THEN r ELSE Panic

Sparse_index_mut(self, idx) ==
    LET r == Sparse_get_mut(self, idx)
    IN IF r.slot.tag = "Some" THEN [self |-> r.self, ret |-> RetSelf]
       ELSE [self |-> r.self, ret |-> Panic]

\* --------------------------------------------------------------- the state
\* ------------------------------------------------------------------ parse
\* A string is a sequence of characters.  "1" stands for the digits, "a" for
\* the characters no number contains, " " for whitespace; ";" is the row
\* separator of Dense::from_str.
Chars == {"1", "a", " ", ";"}

Strs(n) == UNION {[1..l -> Chars] : l \in 0..n}

Ok(x) == [tag |-> "Ok", val |-> x]

ParseErr(msg) == [tag |-> "Err", val |-> msg]

IsWhitespace(c) == c = " "

\* str::trim: leading and trailing whitespace removed.
Trim(s) ==
    LET keep == {k \in DOMAIN s : ~IsWhitespace(s[k])}
    IN IF keep = {}
       THEN <<>>
       ELSE SubSeq(s, CHOOSE k \in keep : \A l \in keep : k <= l,
                      CHOOSE k \in keep : \A l \in keep : k >= l)

\* str::split(sep) for a non-empty sep: the pieces between the successive
\* non-overlapping matches of sep, found left to right; a match at either end
\* leaves an empty piece there.
RECURSIVE Split(_, _)
Split(s, p) ==
    LET hits == {k \in 1..(Len(s) - Len(p) + 1) : SubSeq(s, k, k + Len(p) - 1) = p}
    IN IF hits = {}
       THEN <<s>>
       ELSE LET k == CHOOSE h \in hits : \A l \in hits : h <= l
            IN <<SubSeq(s, 1, k - 1)>> \o Split(SubSeq(s, k + Len(p), Len(s)), p)

\* str::split_whitespace: the maximal runs of non-whitespace characters.
RECURSIVE split_whitespace(_)
split_whitespace(s) ==
    IF s = <<>> THEN <<>>
    ELSE IF IsWhitespace(s[1]) THEN split_whitespace(Tail(s))
    ELSE LET stops == {k \in DOMAIN s : IsWhitespace(s[k])}
             e == IF stops = {}
                  THEN Len(s) + 1
                  ELSE CHOOSE k \in stops : \A l \in stops : k <= l
         IN <<SubSeq(s, 1, e - 1)>> \o split_whitespace(SubSeq(s, e, Len(s)))

\* num.parse::<T>(): a token of digits is read as its decimal value, any
\* other token is an error.
RECURSIVE Decimal(_)
Decimal(tok) ==
    IF tok = <<>> THEN 0 ELSE 10 * Decimal(SubSeq(tok, 1, Len(tok) - 1)) + 1

parse(tok) ==
    IF tok # <<>> /\ \A k \in DOMAIN tok : tok[k] = "1"
    THEN Ok(<<Decimal(tok), 1>>)
    ELSE ParseErr("parse")

\* The loop of mat_from_str over the rows from position k on, with the
\* data, rows and cols accumulated so far.
RECURSIVE mat_from_str_rows(_, _, _, _, _)
mat_from_str_rows(rs, k, data, rows, cols) ==
    IF k > Len(rs) THEN Ok(<<data, rows, cols>>)
    ELSE LET toks == split_whitespace(rs[k])
             read == Len(toks)
             nums == [t \in 1..read |-> parse(toks[t]).val]
         IN IF \E t \in 1..read : parse(toks[t]).tag = "Err"
            THEN ParseErr("Invalid syntax in string")
            ELSE IF cols = 0
            THEN mat_from_str_rows(rs, k + 1, data \o nums, rows + 1, read)
            ELSE IF cols # read
            THEN ParseErr("Invalid shape for matrix")
            ELSE mat_from_str_rows(rs, k + 1, data \o nums, rows + 1, cols)

mat_from_str(s, p) ==
    IF Trim(p) = <<>> THEN ParseErr("Invalid separator")
    ELSE IF s = <<>> THEN ParseErr("Given string is empty")
    ELSE mat_from_str_rows(Split(s, p), 1, <<>>, 0, 0)

\* impl FromStr for Dense: the parsed triple becomes the matrix.
Dense_from_str(s) ==
    LET r == mat_from_str(s, <<";">>)
    IN IF r.tag = "Err"
       THEN [ret |-> r, self |-> Dense_zeros(0, 0)]
       ELSE [ret |-> RetSelf, self |-> [data |-> r.val[1], n |-> r.val[2], m |-> r.val[3]]]

VARIABLES
    rep,     \* which container the program holds: "None" before construction
    dense,   \* the Dense value  (data, n, m)
    diag,    \* the Diag value   (data, n, m)
    sparse,  \* the Sparse value (data, zero; N, M)
    op,      \* name of the call that just returned, "idle" between calls
    idx,     \* its index or shape argument
    val,     \* its Entry argument
    elems,   \* its element-list argument
    text,    \* its string argument
    sep,     \* its separator argument
    ret      \* what it returned

vars == <<rep, dense, diag, sparse, op, idx, val, elems, text, sep, ret>>

Init ==
    /\ rep = "None"
    /\ dense = Dense_zeros(0, 0)
    /\ diag = Diag_zeros(0, 0)
    /\ sparse = Sparse_zeros(0, 0)
    /\ op = "idle"
    /\ idx = <<0, 0>>
    /\ val = Zero
    /\ elems = <<>>
    /\ text = <<>>
    /\ sep = <<>>
    /\ ret = RetSelf

\* A call returns: its name, arguments and result are recorded.
Call(o, i, v, r) ==
    /\ op' = o /\ idx' = i /\ val' = v /\ ret' = r
    /\ elems' = <<>> /\ text' = <<>> /\ sep' = <<>>

\* The program holds container r and no result of an earlier call is alive.
Idle(r) == rep = r /\ op = "idle"

\* The statement ends: the returned value or reference goes out of scope and
\* the next call can borrow the matrix.  A panic ends the program instead.
Drop ==
    /\ op # "idle"
    /\ ret.tag # "Panic"
    /\ Call("idle", <<0, 0>>, Zero, RetSelf)
    /\ UNCHANGED <<rep, dense, diag, sparse>>

\* Entries stay within the bounded value set.
InVals(data) == \A k \in DOMAIN data : data[k] \in Vals

\* ---------------------------------------------------------- Dense actions
DenseZeros(shape) ==
    /\ Idle("None")
    /\ rep' = "Dense"
    /\ dense' = Dense_zeros(shape[1], shape[2])
    /\ Call("zeros", shape, Zero, RetSelf)
    /\ UNCHANGED <<diag, sparse>>

DenseGet(i) ==
    /\ Idle("Dense")
    /\ Call("get", i, Zero, Dense_get(dense, i))
    /\ UNCHANGED <<rep, dense, diag, sparse>>

\* get_mut without a write through the reference
DenseGetMut(i) ==
    /\ Idle("Dense")
    /\ LET s == Dense_get_mut(dense, i)
       IN Call("get_mut", i, Zero,
               IF s.tag = "Some" THEN Some(dense.data[s.pos]) ELSE None)
    /\ UNCHANGED <<rep, dense, diag, sparse>>

\* if let Some(num) = mat.get_mut(i) { *num = v; }
DenseGetMutWrite(i, v) ==
    /\ Idle("Dense")
    /\ LET s == Dense_get_mut(dense, i)
       IN IF s.tag = "Some"
          THEN /\ dense' = [dense EXCEPT !.data[s.pos] = v]
               /\ Call("get_mut_write", i, v, Some(dense.data[s.pos]))
          ELSE /\ dense' = dense
               /\ Call("get_mut_write", i, v, None)
    /\ UNCHANGED <<rep, diag, sparse>>

DenseSet(i, v) ==
    /\ Idle("Dense")
    /\ LET r == Dense_set(dense, i, v)
       IN dense' = r.self /\ Call("set", i, v, r.ret)
    /\ UNCHANGED <<rep, diag, sparse>>

DenseReshape(shape) ==
    /\ Idle("Dense")
    /\ dense' = Dense_reshape(dense, shape)
    /\ Call("reshape", shape, Zero, RetSelf)
    /\ UNCHANGED <<rep, diag, sparse>>

DenseScalarMul(k) ==
    /\ Idle("Dense")
    /\ InVals(Dense_scalar_mul(dense, k).data)
    /\ dense' = Dense_scalar_mul(dense, k)
    /\ Call("scalar_mul", <<0, 0>>, k, RetSelf)
    /\ UNCHANGED <<rep, diag, sparse>>

DenseApply(f) ==
    /\ Idle("Dense")
    /\ InVals(Dense_apply(dense, f).data)
    /\ dense' = Dense_apply(dense, f)
    /\ Call("apply", <<0, 0>>, f.c, RetSelf)
    /\ UNCHANGED <<rep, diag, sparse>>

DenseDet ==
    /\ Idle("Dense")
    /\ Call("det", <<0, 0>>, Zero, Dense_det(dense))
    /\ UNCHANGED <<rep, dense, diag, sparse>>

DenseInv ==
    /\ Idle("Dense")
    /\ Call("inv", <<0, 0>>, Zero, Dense_inv(dense))
    /\ UNCHANGED <<rep, dense, diag, sparse>>

\* mat[i]
DenseIndex(i) ==
    /\ Idle("Dense")
    /\ Call("index", i, Zero, Dense_index(dense, i))
    /\ UNCHANGED <<rep, dense, diag, sparse>>

\* mat[i] = v
DenseIndexMut(i, v) ==
    /\ Idle("Dense")
    /\ LET s == Dense_index_mut(dense, i)
       IN IF s.tag = "Some"
          THEN dense' = [dense EXCEPT !.data[s.pos] = v] /\ Call("index_mut", i, v, RetSelf)
          ELSE dense' = dense /\ Call("index_mut", i, v, Panic)
    /\ UNCHANGED <<rep, diag, sparse>>

DenseCalls ==
    \/ /\ Idle("None")
       /\ \E s \in Shapes : DenseZeros(s)
    \/ /\ Idle("Dense")
       /\ \/ \E i \in Idxs : DenseGet(i)
          \/ \E i \in Idxs : DenseGetMut(i)
          \/ \E i \in Idxs, v \in Vals : DenseGetMutWrite(i, v)
          \/ \E i \in Idxs, v \in Vals : DenseSet(i, v)
          \/ \E s \in Shapes : DenseReshape(s)
          \/ \E k \in Vals : DenseScalarMul(k)
          \/ \E f \in Funs : DenseApply(f)
          \/ DenseDet
          \/ DenseInv
          \/ \E i \in Idxs : DenseIndex(i)
          \/ \E i \in Idxs, v \in Vals : DenseIndexMut(i, v)

NextDense == DenseCalls \/ Drop

SpecDense == Init /\ [][NextDense]_vars

\* ----------------------------------------------------------- Diag actions
DiagIdent(n) ==
    /\ Idle("None")
    /\ rep' = "Diag"
    /\ diag' = Diag_ident(n)
    /\ Call("ident", <<n, n>>, Zero, RetSelf)
    /\ UNCHANGED <<dense, sparse>>

DiagZeros(shape) ==
    /\ Idle("None")
    /\ rep' = "Diag"
    /\ diag' = Diag_zeros(shape[1], shape[2])
    /\ Call("zeros", shape, Zero, RetSelf)
    /\ UNCHANGED <<dense, sparse>>

\* Diag::from(shape, e): on Err no matrix exists
DiagFrom(shape, e) ==
    /\ Idle("None")
    /\ LET r == Diag_from(shape, e)
       IN /\ IF r.ret.tag = "Err"
             THEN rep' = rep /\ diag' = diag
             ELSE rep' = "Diag" /\ diag' = r.self
          /\ op' = "from" /\ idx' = shape /\ val' = Zero /\ elems' = e /\ ret' = r.ret
          /\ text' = <<>> /\ sep' = <<>>
    /\ UNCHANGED <<dense, sparse>>

DiagGet(i) ==
    /\ Idle("Diag")
    /\ Call("get", i, Zero, Diag_get(diag, i))
    /\ UNCHANGED <<rep, dense, diag, sparse>>

DiagGetMut(i) ==
    /\ Idle("Diag")
    /\ LET s == Diag_get_mut(diag, i)
       IN Call("get_mut", i, Zero,
               IF s.tag = "Some" THEN Some(diag.data[s.pos]) ELSE None)
    /\ UNCHANGED <<rep, dense, diag, sparse>>

DiagGetMutWrite(i, v) ==
    /\ Idle("Diag")
    /\ LET s == Diag_get_mut(diag, i)
       IN IF s.tag = "Some"
          THEN /\ diag' = [diag EXCEPT !.data[s.pos] = v]
               /\ Call("get_mut_write", i, v, Some(diag.data[s.pos]))
          ELSE /\ diag' = diag
               /\ Call("get_mut_write", i, v, None)
    /\ UNCHANGED <<rep, dense, sparse>>

DiagSet(i, v) ==
    /\ Idle("Diag")
    /\ LET r == Diag_set(diag, i, v)
       IN diag' = r.self /\ Call("set", i, v, r.ret)
    /\ UNCHANGED <<rep, dense, sparse>>

DiagReshape(shape) ==
    /\ Idle("Diag")
    /\ diag' = Diag_reshape(diag, shape)
    /\ Call("reshape", shape, Zero, RetSelf)
    /\ UNCHANGED <<rep, dense, sparse>>

DiagScalarMul(k) ==
    /\ Idle("Diag")
    /\ InVals(Diag_scalar_mul(diag, k).data)
    /\ diag' = Diag_scalar_mul(diag, k)
    /\ Call("scalar_mul", <<0, 0>>, k, RetSelf)
    /\ UNCHANGED <<rep, dense, sparse>>

DiagApply(f) ==
    /\ Idle("Diag")
    /\ InVals(Diag_apply(diag, f).data)
    /\ diag' = Diag_apply(diag, f)
    /\ Call("apply", <<0, 0>>, f.c, RetSelf)
    /\ UNCHANGED <<rep, dense, sparse>>

DiagDet ==
    /\ Idle("Diag")
    /\ Call("det", <<0, 0>>, Zero, Diag_det(diag))
    /\ UNCHANGED <<rep, dense, diag, sparse>>

DiagInv ==
    /\ Idle("Diag")
    /\ LET r == Diag_inv(diag)
       IN diag' = r.self /\ Call("inv", <<0, 0>>, Zero, r.ret)
    /\ UNCHANGED <<rep, dense, sparse>>

DiagIndex(i) ==
    /\ Idle("Diag")
    /\ Call("index", i, Zero, Diag_index(diag, i))
    /\ UNCHANGED <<rep, dense, diag, sparse>>

DiagIndexMut(i, v) ==
    /\ Idle("Diag")
    /\ LET s == Diag_index_mut(diag, i)
       IN IF s.tag = "Some"
          THEN diag' = [diag EXCEPT !.data[s.pos] = v] /\ Call("index_mut", i, v, RetSelf)
          ELSE diag' = diag /\ Call("index_mut", i, v, Panic)
    /\ UNCHANGED <<rep, dense, sparse>>

\* The element lists handed to Diag::from.
ElemLists == UNION {[1..l -> Vals] : l \in 0..MaxElems}

DiagCalls ==
    \/ /\ Idle("None")
       /\ \/ \E n \in Dims : DiagIdent(n)
          \/ \E s \in Idxs : DiagZeros(s)
          \/ \E s \in Idxs, e \in ElemLists : DiagFrom(s, e)
    \/ /\ Idle("Diag")
       /\ \/ \E i \in Idxs : DiagGet(i)
          \/ \E i \in Idxs : DiagGetMut(i)
          \/ \E i \in Idxs, v \in Vals : DiagGetMutWrite(i, v)
          \/ \E i \in Idxs, v \in Vals : DiagSet(i, v)
          \/ \E s \in Idxs : DiagReshape(s)
          \/ \E k \in Vals : DiagScalarMul(k)
          \/ \E f \in Funs : DiagApply(f)
          \/ DiagDet
          \/ DiagInv
          \/ \E i \in Idxs : DiagIndex(i)
          \/ \E i \in Idxs, v \in Vals : DiagIndexMut(i, v)

NextDiag == DiagCalls \/ Drop

SpecDiag == Init /\ [][NextDiag]_vars

\* --------------------------------------------------------- Sparse actions
SparseZeros(shape) ==
    /\ Idle("None")
    /\ rep' = "Sparse"
    /\ sparse' = Sparse_zeros(shape[1], shape[2])
    /\ Call("zeros", shape, Zero, RetSelf)
    /\ UNCHANGED <<dense, diag>>

\* from_iter: let mut mat = Self::zeros();
SparseFromIter(shape) ==
    /\ Idle("None")
    /\ rep' = "Sparse"
    /\ sparse' = Sparse_zeros(shape[1], shape[2])
    /\ Call("from_iter", shape, Zero, RetSelf)
    /\ UNCHANGED <<dense, diag>>

\* from_iter, one turn of its loop: mat.set(i, v); the collection ends (the
\* matrix is returned) when the iterator is exhausted.
SparseFromIterNext(i, v) ==
    /\ rep = "Sparse"
    /\ op = "from_iter"
    /\ sparse' = Sparse_set(sparse, i, v).self
    /\ UNCHANGED <<rep, dense, diag, op, idx, val, elems, text, sep, ret>>

SparseGet(i) ==
    /\ Idle("Sparse")
    /\ Call("get", i, Zero, Sparse_get(sparse, i))
    /\ UNCHANGED <<rep, dense, diag, sparse>>

\* get_mut without a write through the reference
SparseGetMut(i) ==
    /\ Idle("Sparse")
    /\ LET r == Sparse_get_mut(sparse, i)
       IN /\ sparse' = r.self
          /\ Call("get_mut", i, Zero,
                  IF r.slot.tag = "Some" THEN Some(r.self.data[r.slot.pos]) ELSE None)
    /\ UNCHANGED <<rep, dense, diag>>

\* if let Some(num) = mat.get_mut(i) { *num = v; }
SparseGetMutWrite(i, v) ==
    /\ Idle("Sparse")
    /\ LET r == Sparse_get_mut(sparse, i)
       IN IF r.slot.tag = "Some"
          THEN /\ sparse' = [r.self EXCEPT !.data[r.slot.pos] = v]
               /\ Call("get_mut_write", i, v, Some(r.self.data[r.slot.pos]))
          ELSE /\ sparse' = r.self
               /\ Call("get_mut_write", i, v, None)
    /\ UNCHANGED <<rep, dense, diag>>

SparseSet(i, v) ==
    /\ Idle("Sparse")
    /\ LET r == Sparse_set(sparse, i, v)
       IN sparse' = r.self /\ Call("set", i, v, r.ret)
    /\ UNCHANGED <<rep, dense, diag>>

SparseScalarMul(k) ==
    /\ Idle("Sparse")
    /\ InVals(Sparse_scalar_mul(sparse, k).data)
    /\ sparse' = Sparse_scalar_mul(sparse, k)
    /\ Call("scalar_mul", <<0, 0>>, k, RetSelf)
    /\ UNCHANGED <<rep, dense, diag>>

SparseApply(f) ==
    /\ Idle("Sparse")
    /\ InVals(Sparse_apply(sparse, f).data)
    /\ sparse' = Sparse_apply(sparse, f)
    /\ Call("apply", <<0, 0>>, f.c, RetSelf)
    /\ UNCHANGED <<rep, dense, diag>>

SparseDet ==
    /\ Idle("Sparse")
    /\ Call("det", <<0, 0>>, Zero, Sparse_det(sparse))
    /\ UNCHANGED <<rep, dense, diag, sparse>>

SparseInv ==
    /\ Idle("Sparse")
    /\ Call("inv", <<0, 0>>, Zero, Sparse_inv(sparse))
    /\ UNCHANGED <<rep, dense, diag, sparse>>

SparseIndex(i) ==
    /\ Idle("Sparse")
    /\ Call("index", i, Zero, Sparse_index(sparse, i))
    /\ UNCHANGED <<rep, dense, diag, sparse>>

\* mat[i] = v
SparseIndexMut(i, v) ==
    /\ Idle("Sparse")
    /\ LET r == Sparse_index_mut(sparse, i)
       IN IF r.ret.tag = "Panic"
          THEN sparse' = r.self /\ Call("index_mut", i, v, Panic)
          ELSE sparse' = [r.self EXCEPT !.data[i] = v] /\ Call("index_mut", i, v, RetSelf)
    /\ UNCHANGED <<rep, dense, diag>>

SparseCalls ==
    \/ /\ Idle("None")
       /\ \/ \E s \in Shapes : SparseZeros(s)
          \/ \E s \in Shapes : SparseFromIter(s)
    \/ /\ op = "from_iter"
       /\ \E i \in Idxs, v \in Vals : SparseFromIterNext(i, v)
    \/ /\ Idle("Sparse")
       /\ \/ \E i \in Idxs : SparseGet(i)
          \/ \E i \in Idxs : SparseGetMut(i)
          \/ \E i \in Idxs, v \in Vals : SparseGetMutWrite(i, v)
          \/ \E i \in Idxs, v \in Vals : SparseSet(i, v)
          \/ \E k \in Vals : SparseScalarMul(k)
          \/ \E f \in Funs : SparseApply(f)
          \/ SparseDet
          \/ SparseInv
          \/ \E i \in Idxs : SparseIndex(i)
          \/ \E i \in Idxs, v \in Vals : SparseIndexMut(i, v)

NextSparse == SparseCalls \/ Drop

SpecSparse == Init /\ [][NextSparse]_vars

\* Any of the three containers.
\* ---------------------------------------------------------- parse actions
MatFromStr(s, p) ==
    /\ Idle("None")
    /\ op' = "mat_from_str" /\ idx' = <<0, 0>> /\ val' = Zero /\ elems' = <<>>
    /\ text' = s /\ sep' = p
    /\ ret' = mat_from_str(s, p)
    /\ UNCHANGED <<rep, dense, diag, sparse>>

DenseFromStr(s) ==
    /\ Idle("None")
    /\ LET r == Dense_from_str(s)
       IN /\ IF r.ret.tag = "Err"
             THEN rep' = rep /\ dense' = dense
             ELSE rep' = "Dense" /\ dense' = r.self
          /\ op' = "from_str" /\ idx' = <<0, 0>> /\ val' = Zero /\ elems' = <<>>
          /\ text' = s /\ sep' = <<";">>
          /\ ret' = r.ret
    /\ UNCHANGED <<diag, sparse>>

ParseCalls ==
    /\ Idle("None")
    /\ \/ \E s \in Strs(MaxStr) : \E p \in Strs(MaxSep) : MatFromStr(s, p)
       \/ \E s \in Strs(MaxStr) : DenseFromStr(s)

NextParse == ParseCalls \/ Drop

SpecParse == Init /\ [][NextParse]_vars

Next == DenseCalls \/ DiagCalls \/ SparseCalls \/ Drop

Spec == Init /\ [][Next]_vars

\* ------------------------------------------------------------- properties
\* (i, j) lies inside an n x m shape.
InShape(i, n, m) == i[1] < n /\ i[2] < m

\* C1: on a Dense matrix of shape (n, m), get, get_mut and set return None
\* for every index with i >= n or j >= m, and such a call leaves the matrix
\* (every entry and the shape) unchanged.
C1_DenseOutOfRangeIsNone ==
    [][(/\ rep' = "Dense"
        /\ op' \in {"get", "get_mut", "set"}
        /\ ~InShape(idx', dense'.n, dense'.m))
       => (ret' = None /\ dense' = dense)]_vars

\* C2: on a Diag matrix of shape (n, m), get((i, j)) with i # j returns zero
\* exactly when i < n and j < m and None otherwise; with i = j it returns the
\* stored diagonal value when i < min(n, m) and None otherwise.
C2_DiagGetByShape ==
    (rep = "Diag" /\ op = "get") =>
        ret = IF idx[1] # idx[2]
              THEN (IF InShape(idx, diag.n, diag.m) THEN Some(Zero) ELSE None)
              ELSE (IF idx[1] < Min(diag.n, diag.m)
                    THEN Some(diag.data[idx[1] + 1]) ELSE None)

\* shape() and get() of the container the program holds
CurShape ==
    CASE rep = "Dense" -> Dense_shape(dense)
      [] rep = "Diag" -> Diag_shape(diag)
      [] rep = "Sparse" -> Sparse_shape(sparse)
      [] OTHER -> <<0, 0>>

CurGet(i) ==
    CASE rep = "Dense" -> Dense_get(dense, i)
      [] rep = "Diag" -> Diag_get(diag, i)
      [] rep = "Sparse" -> Sparse_get(sparse, i)
      [] OTHER -> None

\* C3: for every representation, right after zeros(n, m) the shape is (n, m)
\* and get((i, j)) is Some(0) for every in-range index i < n, j < m.
C3_ZerosReadsZero ==
    op = "zeros" =>
        /\ CurShape = idx
        /\ \A i \in Idxs : InShape(i, idx[1], idx[2]) => CurGet(i) = Some(Zero)

\* C4: every key stored in a Sparse<T, N, M> map satisfies i < N and j < M,
\* whatever calls were made; a set on an out-of-range index returns None and
\* stores nothing.
C4_SparseKeysInRange ==
    [][rep' = "Sparse" =>
        /\ \A k \in DOMAIN sparse'.data : InShape(k, sparse'.N, sparse'.M)
        /\ (op' = "set" /\ ~InShape(idx', sparse'.N, sparse'.M))
               => (ret' = None /\ sparse' = sparse)]_vars

C4_Witness ==
    /\ rep = "Sparse"
    /\ op = "set"
    /\ ~InShape(idx, sparse.N, sparse.M)
    /\ ret = None
    /\ DOMAIN sparse.data # {}

\* C5: Sparse get is None out of range, zero on an in-range cell that is not
\* stored and the stored value otherwise; after an in-range set((i, j), v) a
\* get((i, j)) reads exactly v, and that set returned what the cell read
\* before the write.
C5_SparseSetGetRoundTrip ==
    [][rep' = "Sparse" =>
        /\ (op' = "get" /\ ~InShape(idx', sparse.N, sparse.M)) => ret' = None
        /\ (op' = "get" /\ InShape(idx', sparse.N, sparse.M))
               => ret' = IF idx' \in DOMAIN sparse.data
                         THEN Some(sparse.data[idx']) ELSE Some(Zero)
        /\ (op' = "set" /\ InShape(idx', sparse.N, sparse.M))
               => /\ Sparse_get(sparse', idx') = Some(val')
                  /\ ret' = Sparse_get(sparse, idx')]_vars

C5_Witness ==
    /\ rep = "Sparse"
    /\ op = "set"
    /\ ret.tag = "Some"
    /\ ret.val # Zero
    /\ ret.val # val
    /\ Sparse_get(sparse, idx) = Some(val)

\* C6: the backing buffer of a Dense matrix built by zeros has rows * cols
\* entries after any sequence of calls.
C6_DenseLenIsRowsTimesCols ==
    rep = "Dense" => Len(dense.data) = dense.n * dense.m

C6_Witness ==
    /\ rep = "Dense"
    /\ op = "reshape"
    /\ dense.n # dense.m
    /\ Len(dense.data) = dense.n * dense.m
    /\ \E k \in DOMAIN dense.data : dense.data[k] # Zero
    /\ \E k \in DOMAIN dense.data : dense.data[k] = Zero

\* C7: det and inv on Dense and Sparse return a result the caller can branch
\* on and never abort; no call aborts except the indexing operator on an
\* out-of-range index.
C7_NoAbort ==
    /\ (op \in {"det", "inv"} /\ rep \in {"Dense", "Sparse"}) => ret.tag # "Panic"
    /\ ret.tag = "Panic" =>
           (op \in {"index", "index_mut"} /\ ~InShape(idx, CurShape[1], CurShape[2]))

\* The product data[k] * ... * data[len], taken from the last entry backwards.
RECURSIVE ProductFrom(_, _)
ProductFrom(data, k) ==
    IF k > Len(data) THEN One ELSE Mul(data[k], ProductFrom(data, k + 1))

\* C8: Diag::det is None for every shape with n # m and, for a square
\* matrix, Some(product of the min(n, m) diagonal entries): Some(1) when every
\* entry is 1 (the identity, n = 0 included) and Some(0) when some entry is 0.
\* det does not modify the matrix.
C8_DiagDet ==
    [][(rep' = "Diag" /\ op' = "det") =>
        /\ diag' = diag
        /\ diag.n # diag.m => ret' = None
        /\ diag.n = diag.m =>
            /\ Len(diag.data) = Min(diag.n, diag.m)
            /\ ret' = Some(ProductFrom(diag.data, 1))
            /\ (\A k \in DOMAIN diag.data : diag.data[k] = One) => ret' = Some(One)
            /\ (\E k \in DOMAIN diag.data : diag.data[k] = Zero) => ret' = Some(Zero)]_vars

C8_Witness ==
    /\ rep = "Diag"
    /\ op = "det"
    /\ diag.n = diag.m
    /\ diag.n >= 2
    /\ ret.tag = "Some"
    /\ ret.val \notin {Zero, One}
    /\ \E k \in DOMAIN diag.data : diag.data[k] # ret.val

\* C9: Diag::inv on a non-square matrix returns None and leaves it unchanged;
\* on a square matrix it keeps the shape, leaves zero entries zero and turns
\* every other entry e into its reciprocal, so the identity is a fixed point
\* and a second inv restores the matrix.
C9_DiagInv ==
    [][(rep' = "Diag" /\ op' = "inv") =>
        IF diag.n # diag.m
        THEN ret' = None /\ diag' = diag
        ELSE /\ ret' = SomeSelf
             /\ diag'.n = diag.n /\ diag'.m = diag.m
             /\ Len(diag'.data) = Len(diag.data)
             /\ \A k \in DOMAIN diag.data :
                    IF diag.data[k] = Zero
                    THEN diag'.data[k] = Zero
                    ELSE Mul(diag'.data[k], diag.data[k]) = One
             /\ (diag = Diag_ident(diag.n)) => (diag' = diag)
             /\ Diag_inv(diag').self = diag]_vars

C9_Witness ==
    /\ rep = "Diag"
    /\ op = "inv"
    /\ ret = SomeSelf
    /\ \E k \in DOMAIN diag.data : diag.data[k] = Half
    /\ \E k \in DOMAIN diag.data : diag.data[k] = Zero

\* C10: Diag::from((n, m), elems) is an error exactly when
\* len(elems) > min(n, m); otherwise the matrix has shape (n, m) and a
\* diagonal of length min(n, m): elems in order, then zeros, which read as 0.
C10_DiagFrom ==
    op = "from" =>
        LET min == Min(idx[1], idx[2]) IN
        /\ (ret = Err) <=> (Len(elems) > min)
        /\ ret = Err => rep = "None"
        /\ ret # Err =>
            /\ rep = "Diag"
            /\ diag.n = idx[1] /\ diag.m = idx[2]
            /\ Len(diag.data) = min
            /\ \A k \in 1..min :
                   diag.data[k] = IF k <= Len(elems) THEN elems[k] ELSE Zero
            /\ \A k \in (Len(elems) + 1)..min :
                   Diag_get(diag, <<k - 1, k - 1>>) = Some(Zero)

C10_Witness ==
    /\ op = "from"
    /\ rep = "Diag"
    /\ Len(elems) = 1
    /\ Min(idx[1], idx[2]) = 2
    /\ idx[1] # idx[2]
    /\ elems[1] # Zero
    /\ Diag_get(diag, <<1, 1>>) = Some(Zero)

\* C11: on a Diag matrix, get_mut and set with i # j return None and leave
\* the matrix unchanged, and whatever calls were made (apply with f(0) # 0
\* included) every off-diagonal cell that get returns a value for reads zero.
C11_DiagOffDiagonal ==
    [][rep' = "Diag" =>
        /\ (op' \in {"get_mut", "get_mut_write", "set"} /\ idx'[1] # idx'[2])
               => (ret' = None /\ diag' = diag)
        /\ \A i \in Idxs :
               (i[1] # i[2] /\ Diag_get(diag', i) # None)
                   => Diag_get(diag', i) = Some(Zero)]_vars

C11_Witness ==
    /\ rep = "Diag"
    /\ op = "set"
    /\ idx[1] # idx[2]
    /\ InShape(idx, diag.n, diag.m)
    /\ ret = None
    /\ Len(diag.data) >= 2
    /\ \A k \in DOMAIN diag.data : diag.data[k] # Zero
    /\ Diag_get(diag, idx) = Some(Zero)

\* C12: for Dense, Diag and Sparse, scalar_mul(k) leaves the state that
\* apply(|e| e * k) leaves (every stored entry multiplied by k), scalar_mul(a)
\* followed by scalar_mul(b) leaves the state of scalar_mul(a * b), and the
\* shape and the set of stored cells do not change.
C12_ScalarMulIsApply ==
    [][op' = "scalar_mul" =>
        /\ rep' = rep
        /\ CurShape' = CurShape
        /\ rep = "Dense" =>
              /\ dense' = Dense_apply(dense, [kind |-> "mul", c |-> val'])
              /\ DOMAIN dense'.data = DOMAIN dense.data
              /\ \A k \in DOMAIN dense.data : dense'.data[k] = Mul(dense.data[k], val')
              /\ \A b \in Vals :
                    Dense_scalar_mul(dense', b) = Dense_scalar_mul(dense, Mul(val', b))
        /\ rep = "Diag" =>
              /\ diag' = Diag_apply(diag, [kind |-> "mul", c |-> val'])
              /\ DOMAIN diag'.data = DOMAIN diag.data
              /\ \A k \in DOMAIN diag.data : diag'.data[k] = Mul(diag.data[k], val')
              /\ \A b \in Vals :
                    Diag_scalar_mul(diag', b) = Diag_scalar_mul(diag, Mul(val', b))
        /\ rep = "Sparse" =>
              /\ sparse' = Sparse_apply(sparse, [kind |-> "mul", c |-> val'])
              /\ DOMAIN sparse'.data = DOMAIN sparse.data
              /\ \A k \in DOMAIN sparse.data : sparse'.data[k] = Mul(sparse.data[k], val')
              /\ \A b \in Vals :
                    Sparse_scalar_mul(sparse', b) = Sparse_scalar_mul(sparse, Mul(val', b))]_vars

C12_Witness ==
    /\ rep = "Dense"
    /\ op = "scalar_mul"
    /\ val = Half
    /\ \E k \in DOMAIN dense.data : dense.data[k] = Half
    /\ \E k \in DOMAIN dense.data : dense.data[k] = Zero
    /\ \E k \in DOMAIN dense.data : dense.data[k] = One

\* The number of entries in each row of text, the rows being the pieces of
\* text delimited by sep.
RowCounts == [k \in DOMAIN Split(text, sep) |-> Len(split_whitespace(Split(text, sep)[k]))]

BadToken ==
    \E k \in DOMAIN Split(text, sep) :
        \E t \in DOMAIN split_whitespace(Split(text, sep)[k]) :
            parse(split_whitespace(Split(text, sep)[k])[t]).tag = "Err"

\* C13: mat_from_str(s, sep), and Dense::from_str through it with sep ";",
\* returns an error when sep is blank, s is empty, a token fails to parse or
\* the rows delimited by sep do not all hold the same number of entries
\* (empty rows included); so whenever it returns Ok((data, rows, cols)) every
\* row held exactly cols entries and len(data) = rows * cols.
C13_ParseRejectsRaggedRows ==
    op \in {"mat_from_str", "from_str"} =>
        IF Trim(sep) = <<>> \/ text = <<>>
        THEN ret.tag = "Err"
        ELSE /\ (BadToken \/ \E k, l \in DOMAIN RowCounts : RowCounts[k] # RowCounts[l])
                    => ret.tag = "Err"
             /\ ret.tag = "Ok" =>
                    /\ \A k \in DOMAIN RowCounts : RowCounts[k] = ret.val[3]
                    /\ Len(ret.val[1]) = ret.val[2] * ret.val[3]
             /\ ret = RetSelf =>
                    /\ \A k \in DOMAIN RowCounts : RowCounts[k] = dense.m
                    /\ Len(dense.data) = dense.n * dense.m

\* C14: Dense::reshape((n', m')) is a flat resize: the shape becomes (n', m'),
\* the buffer has n' * m' entries, every flat position below both the old and
\* the new length keeps its value (cell (i, j) of the new matrix reads the old
\* flat entry i * m' + j), every position at or past the old length is zero;
\* so reshaping to fewer entries and back does not bring a truncated nonzero
\* value back.
C14_DenseReshapeFlatResize ==
    [][(rep' = "Dense" /\ op' = "reshape") =>
        LET old == Len(dense.data)
            new == idx'[1] * idx'[2]
        IN /\ Dense_shape(dense') = idx'
           /\ Len(dense'.data) = new
           /\ \A k \in 1..new :
                  dense'.data[k] = IF k <= old THEN dense.data[k] ELSE Zero
           /\ \A i \in Idxs :
                  (InShape(i, idx'[1], idx'[2]) /\ i[1] * idx'[2] + i[2] < old)
                      => Dense_get(dense', i) = Some(dense.data[i[1] * idx'[2] + i[2] + 1])
           /\ \A s \in Shapes :
                  s[1] * s[2] < new =>
                      LET back == Dense_reshape(Dense_reshape(dense', s), idx')
                      IN /\ Dense_shape(back) = idx'
                         /\ \A k \in 1..new :
                                back.data[k] = IF k <= s[1] * s[2]
                                               THEN dense'.data[k] ELSE Zero
                         /\ (\E k \in (s[1] * s[2] + 1)..new : dense'.data[k] # Zero)
                                => back # dense']_vars

C14_Witness ==
    /\ rep = "Dense"
    /\ op = "reshape"
    /\ idx = <<1, 3>>
    /\ dense.data = <<One, Two, Zero>>
    /\ Dense_get(dense, <<0, 1>>) = Some(Two)

\* C15: Diag::reshape((n', m')) sets the shape to (n', m') and cuts or
\* zero-pads the diagonal to min(n', m') entries, keeping the entries below
\* both the old and the new length (a reshape to the current shape changes
\* nothing); so a Diag built by ident, zeros or from has len(data) = min(n, m)
\* after any calls of set, apply, scalar_mul, inv and reshape.
C15_DiagReshape ==
    [][rep' = "Diag" =>
        /\ Len(diag'.data) = Min(diag'.n, diag'.m)
        /\ op' = "reshape" =>
              /\ Diag_shape(diag') = idx'
              /\ \A k \in DOMAIN diag'.data :
                     diag'.data[k] = IF k <= Len(diag.data) THEN diag.data[k] ELSE Zero
              /\ (rep = "Diag" /\ idx' = Diag_shape(diag)) => diag' = diag]_vars

C15_Witness ==
    /\ rep = "Diag"
    /\ op = "reshape"
    /\ idx = <<2, 3>>
    /\ diag.data = <<Two, Zero>>

\* C16: Sparse get_mut((i, j)) on an in-range cell that is not stored inserts
\* a stored zero at exactly that key and changes the value get reads at no
\* cell; on a stored cell or an out-of-range index it changes neither the key
\* set nor any value, and out of range it returns None.
C16_SparseGetMutFrame ==
    [][(rep' = "Sparse" /\ op' = "get_mut") =>
        /\ Sparse_shape(sparse') = Sparse_shape(sparse)
        /\ \A i \in Idxs : Sparse_get(sparse', i) = Sparse_get(sparse, i)
        /\ IF InShape(idx', sparse.N, sparse.M) /\ idx' \notin DOMAIN sparse.data
           THEN /\ DOMAIN sparse'.data = DOMAIN sparse.data \cup {idx'}
                /\ sparse'.data[idx'] = Zero
                /\ \A k \in DOMAIN sparse.data : sparse'.data[k] = sparse.data[k]
                /\ ret' = Some(Zero)
           ELSE /\ sparse' = sparse
                /\ ~InShape(idx', sparse.N, sparse.M) => ret' = None
                /\ idx' \in DOMAIN sparse.data => ret' = Some(sparse.data[idx'])]_vars

C16_Witness ==
    /\ rep = "Sparse"
    /\ op = "get_mut"
    /\ ret = Some(Zero)
    /\ idx \in DOMAIN sparse.data
    /\ sparse.data[idx] = Zero
    /\ \E k \in DOMAIN sparse.data : sparse.data[k] # Zero
    /\ \E i \in Idxs : InShape(i, sparse.N, sparse.M) /\ i \notin DOMAIN sparse.data

====
